---- MODULE Spec2Model ----
(***************************************************************************)
(* Interrupt driven serial transmission of serial_osek/src/serial.c.      *)
(*                                                                         *)
(* Two specifications share the definitions of the program:               *)
(*   Spec      the application: task Teclado, task Enviar, the interrupt   *)
(*             routine EventoSerial and the UART transmitter;              *)
(*   SpecCola  the transmit queue alone: a sender that runs the protocol   *)
(*             of lines 217-221 for an arbitrary string, with the          *)
(*             interrupt routine also called directly.                     *)
(* EnviarTexto is modelled statement by statement, because the interrupt   *)
(* routine may run between two of its statements whenever the THRE         *)
(* interrupt is enabled; the interrupt routine runs to completion.         *)
(***************************************************************************)
EXTENDS Integers, Sequences, FiniteSets, TLC

(* ---- program constants ------------------------------------------------ *)

\* uint8_t: cola.cantidad and cola.enviados are counted modulo 2^8
Byte == 256

\* switch readings compared in TASK(Teclado)
TEC1 == 1
TEC2 == 2
TEC3 == 4
TEC4 == 8

\* "Estan ahí mis vidaas? " (23 bytes, the accented letter takes two)
Mensaje1 ==
  <<69, 115, 116, 97, 110, 32, 97, 104, 195, 173, 32, 109, 105, 115, 32,
    118, 105, 100, 97, 97, 115, 63, 32>>

\* "Me oyen? Me escuchan? Me sienten?\r\n" (35 bytes)
Mensaje2 ==
  <<77, 101, 32, 111, 121, 101, 110, 63, 32, 77, 101, 32, 101, 115, 99,
    117, 99, 104, 97, 110, 63, 32, 77, 101, 32, 115, 105, 101, 110, 116,
    101, 110, 63, 13, 10>>

(* ---- bounds of the model ---------------------------------------------- *)

\* longest string of the exhaustive family of short strings
MaxLen == 3
\* calls of the interrupt routine made directly after the queue completed
MaxExtra == 1
\* calls of the interrupt routine made while the line status has THRE clear
MaxEspurias == 1
\* long strings: lengths Byte .. Byte + MaxLargo
MaxLargo == 2

\* letters of the short strings
Letras == {65, 66}

\* value of a byte read past the terminator of a string (indeterminate)
Basura == {0, 255}

\* readings of the switches offered to TASK(Teclado)
Teclas == {0, TEC1, TEC2, TEC3, TEC4}

\* task identifiers: Enviar and any other (basic) task of the application
Tareas == {"Enviar", "Otra"}

VARIABLES
  cola,       \* cola_t: [datos, cantidad, enviados]
  tarea,      \* TaskType tarea
  ier,        \* UART_IER_THREINT enabled
  thre,       \* UART_LSR_THRE: the transmit holding register is empty
  pc,         \* position of the sender (task Enviar)
  paso,       \* which EnviarTexto call of the sender is in progress
  cadena,     \* argument of the EnviarTexto call in progress
  pendiente,  \* local of EnviarTexto, and its returned value
  evento,     \* event Completo is set for task Enviar
  anterior,   \* static anterior of TASK(Teclado)
  amarillo,   \* YELLOW_LED
  verde,      \* GREEN_LED
  rojo,       \* RED_LED
  apagado,    \* ShutdownOS was called
  completo,   \* value returned by the last EnviarCaracter
  ocupada,    \* the THRE interrupt was enabled when EnviarTexto was entered
  escrita,    \* GetTaskID stored tarea since EnviarTexto was entered
  tecla,      \* local tecla of TASK(Teclado): its last reading
  intento,    \* the last run of TASK(Teclado) called ActivateTask(Enviar)
  salida,     \* test bench: bytes written to the transmit register
  traza       \* test bench: counters of the current transmission

vars == <<cola, tarea, ier, thre, pc, paso, cadena, pendiente, evento,
          anterior, amarillo, verde, rojo, apagado, completo, ocupada, escrita,
          tecla, intento, salida, traza>>

(* ---- pure helpers ------------------------------------------------------ *)

\* strlen(cadena) stored in a uint8_t
strlen8(c) == Len(c) % Byte

\* values cola.datos[i] can have: the byte, the terminator, or anything
Dato(d, i) ==
  IF i < Len(d) THEN {d[i + 1]}
  ELSE IF i = Len(d) THEN {0}
  ELSE Basura

RECURSIVE Cortas(_)
Cortas(n) ==
  IF n = 0 THEN {<<>>}
  ELSE LET prev == Cortas(n - 1)
       IN  prev \cup {Append(s, l) : s \in {t \in prev : Len(t) = n - 1}, l \in Letras}

Larga(n) == [i \in 1..n |-> 65 + (i % 2)]

\* strings given to EnviarTexto by the sender of SpecCola
Cadenas == Cortas(MaxLen) \cup {Larga(Byte + k) : k \in 0..MaxLargo}

TrazaCero ==
  [llamadas |-> 0, espurias |-> 0, extras |-> 0, senales |-> 0,
   completos |-> 0, fuera |-> FALSE]

\* the sender of SpecCola runs on a test bench whose UART records what is
\* written to it; the application (paso 1 and 2) runs on the target
Banco == paso = 0

(* ---- initial states ---------------------------------------------------- *)

InitComun ==
  /\ cola = [datos |-> <<>>, cantidad |-> 0, enviados |-> 0]
  /\ tarea \in Tareas
  /\ ier = FALSE
  /\ thre = TRUE
  /\ cadena = <<>>
  /\ pendiente = FALSE
  /\ evento = FALSE
  /\ anterior = 0
  /\ amarillo = FALSE
  /\ verde = FALSE
  /\ rojo = FALSE
  /\ apagado = FALSE
  /\ completo = FALSE
  /\ ocupada = FALSE
  /\ escrita = FALSE
  /\ tecla = 0
  /\ intento = FALSE
  /\ salida = <<>>
  /\ traza = TrazaCero

Init == InitComun /\ pc = "suspendida" /\ paso = 1

InitCola == InitComun /\ pc = "prueba" /\ paso = 0

(* ---- collaborators: UART driver and OSEK services ----------------------- *)

\* Chip_UART_SendByte(USB_UART, b): b is written to the transmit register
Chip_UART_SendByte(b) ==
  /\ thre' = FALSE
  /\ salida' = IF Banco THEN Append(salida, b) ELSE salida

\* slip: the system is shut down without lighting the fault LED
ErrorHookSinLed ==
  /\ rojo' = rojo
  /\ apagado' = TRUE

\* ErrorHook: the fault LED is lit, then the system is shut down for good
ErrorHook ==
  /\ rojo' = TRUE
  /\ apagado' = TRUE

\* SetEvent(t, Completo); STATUS = EXTENDED: signalling a suspended task or
\* a task that owns no events is an error, reported through ErrorHook
SetEvent(t) ==
  IF t = "Enviar" /\ pc # "suspendida"
  THEN evento' = TRUE /\ UNCHANGED <<rojo, apagado>>
  ELSE ErrorHook /\ UNCHANGED evento

\* where the sender goes on after the if of call number s
Despues(s) ==
  CASE s = 1 -> "L223"
    [] s = 2 -> "L228"
    [] OTHER -> "prueba"

\* slip: the sender waits whatever EnviarTexto returned
RamaSiempre(p, s) == "GetTaskID"

\* if (EnviarTexto(...)) { GetTaskID; ClearEvent; WaitEvent }
RamaSi(p, s) == IF p THEN "GetTaskID" ELSE Despues(s)

\* history kept at the entry of EnviarTexto
Entrada ==
  /\ ocupada' = ier
  /\ escrita' = FALSE
  /\ salida' = <<>>
  /\ traza' = TrazaCero

(* ---- EnviarTexto, statement by statement ------------------------------- *)

\* line 121: cola.datos = cadena
T121 ==
  /\ pc = "T121" /\ ~apagado
  /\ cola' = [cola EXCEPT !.datos = cadena]
  /\ pc' = "T122"
  /\ UNCHANGED <<tarea, ier, thre, paso, cadena, pendiente, evento, anterior,
                 amarillo, verde, rojo, apagado, completo, ocupada, salida, traza,
                 escrita, tecla, intento>>

\* line 122: cola.cantidad = strlen(cadena)
T122 ==
  /\ pc = "T122" /\ ~apagado
  /\ cola' = [cola EXCEPT !.cantidad = strlen8(cadena)]
  /\ pc' = "T123"
  /\ UNCHANGED <<tarea, ier, thre, paso, cadena, pendiente, evento, anterior,
                 amarillo, verde, rojo, apagado, completo, ocupada, salida, traza,
                 escrita, tecla, intento>>

\* line 123: cola.enviados = 0
T123 ==
  /\ pc = "T123" /\ ~apagado
  /\ cola' = [cola EXCEPT !.enviados = 0]
  /\ pc' = "T125"
  /\ UNCHANGED <<tarea, ier, thre, paso, cadena, pendiente, evento, anterior,
                 amarillo, verde, rojo, apagado, completo, ocupada, salida, traza,
                 escrita, tecla, intento>>

\* lines 125-126: if (cola.cantidad) Chip_UART_SendByte(cola.datos[cola.enviados])
T125 ==
  /\ pc = "T125" /\ ~apagado
  /\ IF cola.cantidad # 0
     THEN /\ \E b \in Dato(cola.datos, cola.enviados) : Chip_UART_SendByte(b)
          /\ traza' = IF Banco
                       THEN [traza EXCEPT
                               !.fuera = @ \/ cola.enviados >= Len(cola.datos)]
                       ELSE traza
          /\ pc' = "T127"
     ELSE /\ pc' = "T134"
          /\ UNCHANGED <<thre, salida, traza>>
  /\ UNCHANGED <<cola, tarea, ier, paso, cadena, pendiente, evento, anterior,
                 amarillo, verde, rojo, apagado, completo, ocupada,
                 escrita, tecla, intento>>

\* line 127: cola.enviados++
T127 ==
  /\ pc = "T127" /\ ~apagado
  /\ cola' = [cola EXCEPT !.enviados = (@ + 1) % Byte]
  /\ pc' = "T129"
  /\ UNCHANGED <<tarea, ier, thre, paso, cadena, pendiente, evento, anterior,
                 amarillo, verde, rojo, apagado, completo, ocupada, salida, traza,
                 escrita, tecla, intento>>

\* lines 129-132: if (enviados < cantidad) { IntEnable(THREINT); pendiente = TRUE }
T129 ==
  /\ pc = "T129" /\ ~apagado
  /\ IF cola.enviados < cola.cantidad
     THEN ier' = TRUE /\ pendiente' = TRUE
     ELSE UNCHANGED <<ier, pendiente>>
  /\ pc' = "T134"
  /\ UNCHANGED <<cola, tarea, thre, paso, cadena, evento, anterior,
                 amarillo, verde, rojo, apagado, completo, ocupada, salida, traza,
                 escrita, tecla, intento>>

\* line 134 and the if of the caller: return (pendiente)
T134 ==
  /\ pc = "T134" /\ ~apagado
  /\ pc' = RamaSi(pendiente, paso)
  /\ UNCHANGED <<cola, tarea, ier, thre, paso, cadena, pendiente, evento,
                 anterior, amarillo, verde, rojo, apagado, completo, ocupada,
                 salida, traza,
                 escrita, tecla, intento>>

EnviarTexto == T121 \/ T122 \/ T123 \/ T125 \/ T127 \/ T129 \/ T134

(* ---- the wait of the sender -------------------------------------------- *)

\* GetTaskID(&tarea)
GetTaskID ==
  /\ pc = "GetTaskID" /\ ~apagado
  /\ tarea' = "Enviar"
  /\ escrita' = TRUE
  /\ pc' = "ClearEvent"
  /\ UNCHANGED <<cola, ier, thre, paso, cadena, pendiente, evento, anterior,
                 amarillo, verde, rojo, apagado, completo, ocupada, salida, traza,
                 tecla, intento>>

\* ClearEvent(Completo)
ClearEvent ==
  /\ pc = "ClearEvent" /\ ~apagado
  /\ evento' = FALSE
  /\ pc' = "WaitEvent"
  /\ UNCHANGED <<cola, tarea, ier, thre, paso, cadena, pendiente, anterior,
                 amarillo, verde, rojo, apagado, completo, ocupada, salida, traza,
                 escrita, tecla, intento>>

\* WaitEvent(Completo): the task goes on once the event is set
WaitEvent ==
  /\ pc = "WaitEvent" /\ ~apagado
  /\ evento
  /\ pc' = Despues(paso)
  /\ UNCHANGED <<cola, tarea, ier, thre, paso, cadena, pendiente, evento,
                 anterior, amarillo, verde, rojo, apagado, completo, ocupada,
                 salida, traza,
                 escrita, tecla, intento>>

Esperar == GetTaskID \/ ClearEvent \/ WaitEvent

(* ---- TASK(Enviar) ------------------------------------------------------- *)

\* lines 215-217: Led_On(YELLOW_LED); EnviarTexto("Estan ...")
L215 ==
  /\ pc = "L215" /\ ~apagado
  /\ amarillo' = TRUE
  /\ paso' = 1
  /\ cadena' = Mensaje1
  /\ pendiente' = FALSE
  /\ pc' = "T121"
  /\ Entrada
  /\ UNCHANGED <<cola, tarea, ier, thre, evento, anterior, verde, rojo,
                 apagado, completo,
                 tecla, intento>>

\* line 223: EnviarTexto("Me oyen? ...")
L223 ==
  /\ pc = "L223" /\ ~apagado
  /\ paso' = 2
  /\ cadena' = Mensaje2
  /\ pendiente' = FALSE
  /\ pc' = "T121"
  /\ Entrada
  /\ UNCHANGED <<cola, tarea, ier, thre, evento, anterior, amarillo, verde,
                 rojo, apagado, completo,
                 tecla, intento>>

\* lines 228-231: Led_Off(YELLOW_LED); TerminateTask()
L228 ==
  /\ pc = "L228" /\ ~apagado
  /\ amarillo' = FALSE
  /\ pc' = "suspendida"
  /\ UNCHANGED <<cola, tarea, ier, thre, paso, cadena, pendiente, evento,
                 anterior, verde, rojo, apagado, completo, ocupada, salida, traza,
                 escrita, tecla, intento>>

Enviar == L215 \/ L223 \/ L228

(* ---- EnviarCaracter and ISR(EventoSerial) ------------------------------ *)

\* slip: the counter skips a byte
AvanceDoble(c) == (c.enviados + 2) % Byte

\* cola.enviados after EnviarCaracter pushed a byte
Avance(c) == (c.enviados + 1) % Byte

\* slip: the end is tested before the increment
FinTarde(c) == c.enviados = c.cantidad

\* if (cola.enviados == cola.cantidad) after the increment
Fin(c) == Avance(c) = c.cantidad

\* slip: the line status is not tested
VacioSiempre(eventos) == TRUE

\* if (eventos & UART_LSR_THRE)
Vacio(eventos) == eventos

\* the interrupt routine; directa: it was called with the interrupt disabled
EventoSerial(directa) ==
  LET eventos == thre
  IN
  /\ IF Vacio(eventos)
     THEN /\ \E b \in Dato(cola.datos, cola.enviados) : Chip_UART_SendByte(b)
          /\ cola' = [cola EXCEPT !.enviados = Avance(cola)]
          /\ completo' = Fin(cola)
          /\ ier' = IF Fin(cola) THEN FALSE ELSE ier
          /\ IF Fin(cola)
             THEN SetEvent(tarea)
             ELSE UNCHANGED <<evento, rojo, apagado>>
     ELSE /\ completo' = FALSE
          /\ UNCHANGED <<cola, ier, thre, evento, rojo, apagado, salida>>
  /\ traza' = IF Banco
              THEN [traza EXCEPT
                      !.llamadas = IF eventos THEN @ + 1 ELSE @,
                      !.espurias = IF eventos THEN @ ELSE @ + 1,
                      !.extras = IF directa THEN @ + 1 ELSE @,
                      !.senales = IF completo' THEN @ + 1 ELSE @,
                      !.completos = IF completo' THEN @ + 1 ELSE @,
                      !.fuera = @ \/ (cola'.enviados # cola.enviados
                                      /\ cola.enviados >= Len(cola.datos))]
              ELSE traza
  /\ UNCHANGED <<tarea, pc, paso, cadena, pendiente, anterior, amarillo,
                 verde, ocupada,
                 escrita, tecla, intento>>

\* the THRE interrupt: enabled and the transmit register is empty
ISR ==
  /\ ~apagado
  /\ ier /\ thre
  /\ EventoSerial(FALSE)

\* the transmitter moves the byte to the shift register
UartVacia ==
  /\ ~thre
  /\ thre' = TRUE
  /\ UNCHANGED <<cola, tarea, ier, pc, paso, cadena, pendiente, evento,
                 anterior, amarillo, verde, rojo, apagado, completo, ocupada,
                 salida, traza,
                 escrita, tecla, intento>>

(* ---- TASK(Teclado) ------------------------------------------------------ *)

\* slip: the reading is not compared with the previous one
CambioSiempre(t, a) == TRUE

\* if (tecla != anterior)
Cambio(t, a) == t # a

\* one activation of the task, k the value returned by Read_Switches(); a
\* service that fails ends in ShutdownOS and the rest of the task never runs
Teclado(k) ==
  /\ ~apagado
  /\ tecla' = k
  /\ IF Cambio(k, anterior)
     THEN CASE k = TEC1 ->
                 \* ActivateTask(Enviar): one activation at most
                 /\ intento' = TRUE
                 /\ IF pc = "suspendida"
                    THEN /\ pc' = "L215"
                         /\ evento' = FALSE
                         /\ anterior' = k
                         /\ verde' = ~verde
                         /\ UNCHANGED <<rojo, apagado>>
                    ELSE /\ ErrorHook
                         /\ UNCHANGED <<pc, evento, anterior, verde>>
            [] k = TEC4 ->
                 /\ intento' = FALSE
                 /\ IF pc # "suspendida"
                    THEN /\ SetEvent("Enviar")
                         /\ anterior' = k
                         /\ verde' = ~verde
                         /\ UNCHANGED pc
                    ELSE /\ SetEvent("Enviar")
                         /\ UNCHANGED <<pc, anterior, verde>>
            [] OTHER ->
                 /\ intento' = FALSE
                 /\ anterior' = k
                 /\ verde' = ~verde
                 /\ UNCHANGED <<pc, evento, rojo, apagado>>
     ELSE /\ intento' = FALSE
          /\ verde' = ~verde
          /\ UNCHANGED <<pc, evento, anterior, rojo, apagado>>
  /\ UNCHANGED <<cola, tarea, ier, thre, paso, cadena, pendiente, amarillo,
                 completo, ocupada, salida, traza, escrita>>

(* ---- the application ---------------------------------------------------- *)

Next ==
  \/ \E k \in Teclas : Teclado(k)
  \/ Enviar
  \/ EnviarTexto
  \/ Esperar
  \/ ISR
  \/ UartVacia

Spec == Init /\ [][Next]_vars

(* ---- the application under fair scheduling, key TEC4 never pressed ------- *)

TeclasSinTEC4 == Teclas \ {TEC4}

NextJusta ==
  \/ \E k \in TeclasSinTEC4 : Teclado(k)
  \/ Enviar
  \/ EnviarTexto
  \/ Esperar
  \/ ISR
  \/ UartVacia

\* the interrupt is served whenever it is pending, the transmitter empties
\* its register, and a task that can run is run
SpecJusta ==
  /\ Init
  /\ [][NextJusta]_vars
  /\ WF_vars(ISR)
  /\ WF_vars(UartVacia)
  /\ WF_vars(Enviar \/ EnviarTexto \/ Esperar)

(* ---- the transmit queue alone ------------------------------------------- *)

\* the sender starts EnviarTexto(c) on an idle queue
ProbarTexto(c) ==
  /\ pc = "prueba" /\ ~apagado
  /\ ~ier
  /\ cadena' = c
  /\ pendiente' = FALSE
  /\ pc' = "T121"
  /\ Entrada
  /\ UNCHANGED <<cola, tarea, ier, thre, paso, evento, anterior, amarillo,
                 verde, rojo, apagado, completo,
                 tecla, intento>>

\* the interrupt routine, fired by the interrupt or called directly between
\* two transmissions, with the line status as it is
ProbarCaracter ==
  /\ ~apagado
  /\ ier \/ (pc = "prueba" /\ traza.extras < MaxExtra)
  /\ thre \/ traza.espurias < MaxEspurias
  /\ EventoSerial(~ier)

NextCola ==
  \/ \E c \in Cadenas : ProbarTexto(c)
  \/ EnviarTexto
  \/ Esperar
  \/ ProbarCaracter
  \/ UartVacia

SpecCola == InitCola /\ [][NextCola]_vars

(* ---- properties --------------------------------------------------------- *)

\* positions inside EnviarTexto, before its return
Dentro == {"T121", "T122", "T123", "T125", "T127", "T129"}

Prefijo(s, t) == Len(s) <= Len(t) /\ s = SubSeq(t, 1, Len(s))

Min(a, b) == IF a < b THEN a ELSE b

\* the transmission of cadena is over: EnviarTexto ran and nothing is pending
Terminada == pc \notin Dentro /\ ~ier

\* a step of the interrupt routine (test bench)
PasoISR ==
  \/ traza'.llamadas = traza.llamadas + 1
  \/ traza'.espurias = traza.espurias + 1

\* C1: in every reachable state of the application the queue satisfies
\* 0 <= cola.enviados <= cola.cantidad
C1_EnviadosAcotado ==
  /\ 0 <= cola.enviados
  /\ cola.enviados <= cola.cantidad

\* C2: in every reachable state, cola.enviados = cola.cantidad implies that
\* the THRE interrupt is disabled, that is, the queue is idle: no
\* transmission is pending
C2_CompletaOciosa ==
  cola.enviados = cola.cantidad => ~ier

\* C3: the bytes pushed by one EnviarTexto and the EnviarCaracter calls that
\* follow it are, at every moment, the first bytes of the message in their
\* order, none read at an index >= length, and at completion they are the
\* whole message
C3_SecuenciaExacta ==
  traza.extras = 0 =>
    /\ Prefijo(salida, cadena)
    /\ ~traza.fuera
    /\ Terminada => salida = cadena

C5_RetornoEnviarTexto ==
  (pc = "T134" /\ Banco /\ traza.llamadas = 0) =>
    /\ pendiente <=> Len(cadena) >= 2
    /\ ier <=> pendiente
    /\ salida = SubSeq(cadena, 1, Min(Len(cadena), 1))
    /\ cola.enviados = Min(Len(cadena), 1)

\* C6: a message of L >= 2 bytes started by EnviarTexto is finished by exactly
\* L - 1 calls of EnviarCaracter with THRE set: before the last of them none
\* has returned complete and the interrupt is enabled; the (L-1)-th pushed
\* the last byte, returned complete and disabled the interrupt
C6_LMenosUnaLlamadas ==
  (Len(cadena) >= 2 /\ pc \notin Dentro /\ Banco /\ traza.extras = 0) =>
    /\ traza.llamadas <= Len(cadena) - 1
    /\ traza.llamadas < Len(cadena) - 1 => (traza.completos = 0 /\ ier)
    /\ traza.llamadas = Len(cadena) - 1 =>
         (traza.completos = 1 /\ ~ier /\ salida = cadena)

\* C7: a call of EnviarCaracter (through the interrupt routine) while THRE is
\* clear returns not complete, leaves the queue, the interrupt enable and the
\* UART as they were and issues no SetEvent
C7_SinTHRESinCambio ==
  [][traza'.espurias = traza.espurias + 1 =>
       /\ ~completo'
       /\ UNCHANGED <<cola, ier, thre, salida, evento, tarea, rojo, apagado>>
       /\ traza'.senales = traza.senales]_vars

C7_Testigo ==
  /\ traza.espurias = 1
  /\ ier
  /\ cola.enviados < cola.cantidad

C9_EsperaSiPendiente ==
  /\ [][(pc = "T134" /\ pc' # pc) =>
          /\ pendiente => pc' = "GetTaskID"
          /\ ~pendiente => pc' = Despues(paso)]_vars
  /\ [](pc \in {"GetTaskID", "ClearEvent", "WaitEvent"} => pendiente)

C9_Testigo ==
  /\ pc = "WaitEvent"
  /\ pendiente
  /\ paso = 2

\* C10: whenever task Enviar enters EnviarTexto the previous transmission is
\* complete: the THRE interrupt is disabled and enviados = cantidad
C10_UnaPorVez ==
  pc = "T121" => (~ocupada /\ ~ier /\ cola.enviados = cola.cantidad)

\* a step of the interrupt routine that pushed the last byte (application)
PasoCompleto ==
  /\ thre /\ ~thre'
  /\ cola'.enviados # cola.enviados
  /\ completo'

\* C11: whenever the interrupt routine reads tarea to issue
\* SetEvent(tarea, Completo), the sender of the transmission that just
\* completed has already stored tarea with GetTaskID, so tarea is Enviar
C11_TareaEscrita ==
  [][PasoCompleto => (escrita /\ tarea = "Enviar")]_vars

\* C12: with the interrupt served whenever it is pending and key TEC4 never
\* pressed, every activation of Enviar reaches TerminateTask (unless the
\* system was shut down meanwhile)
C12_SiempreTermina ==
  (pc = "L215") ~> (pc = "suspendida" \/ apagado)

\* positions of EnviarTexto whose statement writes the queue or pushes a byte
Escribe == {"T121", "T122", "T123", "T125", "T127"}

\* C13: whenever the task is about to write cola.datos, cola.cantidad or
\* cola.enviados or to push a byte in EnviarTexto, the THRE interrupt is
\* disabled: the task never writes the queue while a send is pending
C13_EscrituraExclusiva ==
  pc \in Escribe => ~ier

\* C14: once EnviarTexto has recorded the message, cola.cantidad is the
\* number of bytes of the text, for texts of 256 bytes and more too
C14_CantidadEsLongitud ==
  pc \in {"T123", "T125", "T127", "T129", "T134"} =>
    cola.cantidad = Len(cadena)

\* C15: once the system is shut down the red LED is on, and from then on no
\* step of a task or of the interrupt routine changes anything
C15_FalloDetiene ==
  /\ [](apagado => rojo)
  /\ [][apagado =>
          /\ apagado'
          /\ UNCHANGED <<cola, tarea, ier, pc, paso, cadena, pendiente,
                         evento, anterior, amarillo, verde, rojo, completo,
                         tecla, intento>>]_vars

C15_Testigo ==
  /\ apagado /\ rojo
  /\ pc = "WaitEvent"
  /\ ier

\* C16: whenever task Enviar is terminated, the transmission is complete
\* (enviados = cantidad) and the THRE interrupt is disabled, so that no
\* interrupt can signal the terminated task
C16_QuietaAlTerminar ==
  pc = "suspendida" => (~ier /\ cola.enviados = cola.cantidad)

\* a run of TASK(Teclado): it toggles the green LED or ends in ShutdownOS
PasoTeclado ==
  \/ verde' # verde
  \/ ~apagado /\ apagado' /\ cola' = cola

\* ActivateTask(Enviar) is called only in a run whose reading differs from
\* anterior and is TEC1, and never in a run that reads what the run before read
SoloEnFlanco ==
  [][PasoTeclado =>
       /\ intento' => (tecla' # anterior /\ tecla' = TEC1)
       /\ tecla' = tecla => ~intento']_vars

\* C17 as stated: key handling is edge triggered, and anterior always equals
\* the reading of the most recent run that saw a change
C17_FlancoSiempre ==
  /\ SoloEnFlanco
  /\ [](anterior = tecla)

\* C17 amended: key handling is edge triggered, and anterior equals the
\* reading of the most recent run that saw a change as long as the system
\* was not shut down; the run that ends in ShutdownOS saw a change and did
\* not store it
C17_FlancoSalvoApagado ==
  /\ SoloEnFlanco
  /\ [](~apagado => anterior = tecla)
  /\ []((apagado /\ tecla # anterior) => rojo)

C17_Testigo ==
  /\ anterior = TEC1 /\ tecla = TEC1
  /\ ~intento
  /\ pc = "WaitEvent"
  /\ ~apagado

====
